---- MODULE Spec2Model ----
(***************************************************************************)
(* Model of claude_session_manager_mcp/server.py: the transcript parsing,  *)
(* the in-place rename of a session, the soft delete into .bak and the     *)
(* bulk cleanup, with the tool-call dispatcher on top.                     *)
(*                                                                         *)
(* A text is a sequence of characters.  The alphabet is two letters, the   *)
(* space, the line feed and two atomic tokens standing for an IDE tag      *)
(* "<ide_x>" and its closing tag "</ide_x>".                               *)
(***************************************************************************)
EXTENDS Naturals, Integers, Sequences, FiniteSets, TLC

NL == "\n"
SP == " "
IDE_OPEN == "<ide_x>"
IDE_CLOSE == "</ide_x>"

Min(S) == CHOOSE x \in S : \A y \in S : x <= y
Max(S) == CHOOSE x \in S : \A y \in S : x >= y

(***************************************************************************)
(* String primitives of the Python runtime used by the code.               *)
(***************************************************************************)

\* str.strip(): drops leading and trailing whitespace.
Strip(s) ==
    LET keep == {i \in 1..Len(s) : s[i] \notin {SP, NL}}
    IN  IF keep = {} THEN <<>> ELSE SubSeq(s, Min(keep), Max(keep))

\* text.strip().startswith('<ide_')
StartsWithIdeTag(s) ==
    LET t == Strip(s) IN Len(t) > 0 /\ t[1] = IDE_OPEN

\* re.sub(r'<ide_[^>]*>.*?</ide_[^>]*>', '', text, flags=re.DOTALL):
\* every leftmost opening tag that has a closing tag after it is removed
\* together with everything up to the nearest closing tag.
RECURSIVE RemoveIdeBlocks(_)
RemoveIdeBlocks(s) ==
    LET opens == {i \in 1..Len(s) :
                    s[i] = IDE_OPEN /\ \E j \in (i+1)..Len(s) : s[j] = IDE_CLOSE}
    IN  IF opens = {} THEN s
        ELSE LET i == Min(opens)
                 j == Min({k \in (i+1)..Len(s) : s[k] = IDE_CLOSE})
             IN  SubSeq(s, 1, i-1) \o RemoveIdeBlocks(SubSeq(s, j+1, Len(s)))

\* re.sub(r'^[^\n]+\n\n', '', old_text): one or more characters other than a
\* line feed at the very start, followed by two line feeds, are removed.
StripTitlePrefix(s) ==
    LET nls == {i \in 1..Len(s) : s[i] = NL}
    IN  IF nls = {} THEN s
        ELSE LET k == Min(nls)
             IN  IF k > 1 /\ k + 1 <= Len(s) /\ s[k+1] = NL
                 THEN SubSeq(s, k + 2, Len(s))
                 ELSE s

\* f"{new_title}\n\n{body}"
WithTitle(title, body) == title \o <<NL, NL>> \o body

\* s[:n]
Prefix(s, n) == SubSeq(s, 1, IF Len(s) < n THEN Len(s) ELSE n)

TitleCap == 100
SessionIdPrefixLen == 8

\* The title rule of parse_session_summary: the text before the first blank
\* line, else the first line, else the whole text, cut to 100 characters.
TitleFromText(t) ==
    LET para == {i \in 1..(Len(t)-1) : t[i] = NL /\ t[i+1] = NL}
        brk  == {i \in 1..Len(t) : t[i] = NL}
    IN  IF para # {} THEN Prefix(SubSeq(t, 1, Min(para) - 1), TitleCap)
        ELSE IF brk # {} THEN Prefix(SubSeq(t, 1, Min(brk) - 1), TitleCap)
        ELSE Prefix(t, TitleCap)

\* f"Session {session_id[:8]}"
DefaultTitle(session_id) == <<"Session", SP>> \o Prefix(session_id, SessionIdPrefixLen)

(***************************************************************************)
(* Lines of a transcript file.  A line is its content and its terminator   *)
(* ("LF", "CRLF", or "NONE" for an unterminated last line).  The content   *)
(* is blank, not JSON ("malformed"), JSON that is no object ("nonobject":  *)
(* json.loads succeeds and entry.get raises AttributeError), or an object. *)
(* fmt is the serialisation of an object: "compact" as the assistant       *)
(* writes it, "spaced" as json.dumps writes it (', ' and ': ' separators). *)
(***************************************************************************)
NoContent == [shape |-> "absent", items |-> <<>>, str |-> <<>>]
ListContent(items) == [shape |-> "list", items |-> items, str |-> <<>>]
StrContent(s) == [shape |-> "str", items |-> <<>>, str |-> s]

TextItem(t) == [type |-> "text", text |-> t]
ToolResultItem == [type |-> "tool_result", text |-> <<>>]

Body(kind, type, ts, hasMessage, content, operation, summary) ==
    [kind |-> kind, type |-> type, fmt |-> "compact", timestamp |-> ts,
     hasMessage |-> hasMessage, content |-> content,
     operation |-> operation, summary |-> summary]

BlankBody == Body("blank", "", 0, FALSE, NoContent, "", <<>>)
MalformedBody == Body("malformed", "", 0, FALSE, NoContent, "", <<>>)
NonObjectBody == Body("nonobject", "", 0, FALSE, NoContent, "", <<>>)
UserBody(ts, content) == Body("object", "user", ts, TRUE, content, "", <<>>)
UserNoMessageBody == Body("object", "user", 0, FALSE, NoContent, "", <<>>)
AssistantBody(ts) == Body("object", "assistant", ts, TRUE, ListContent(<<TextItem(<<"b">>)>>), "", <<>>)
SummaryBody(s) == Body("object", "summary", 0, FALSE, NoContent, "", s)
QueueBody(op, content) == Body("object", "queue-operation", 0, FALSE, content, op, <<>>)

Line(body, term) == [body |-> body, term |-> term]

\* The items a "for item in content_list" loop sees that are dicts of type
\* 'text': a list's items; a str iterates as characters, none of them a dict.
Items(content) == IF content.shape = "list" THEN content.items ELSE <<>>

IsTextItem(item) == item.type = "text"

(***************************************************************************)
(* rename_session, lines 153-236.                                          *)
(***************************************************************************)

\* os.linesep of the platform the server runs on: text-mode writing turns
\* every '\n' into it.
Linesep == "LF"

\* open(jsonl_file, 'r') in text mode with universal newlines: "\r\n" is
\* handed to the program as "\n"; an unterminated last line stays as it is.
ReadLine(l) == [l EXCEPT !.term = IF l.term = "NONE" THEN "NONE" ELSE "LF"]
ReadLines(f) == [i \in 1..Len(f) |-> ReadLine(f[i])]

\* f.writelines(lines) in text mode: '\n' is written as os.linesep.
WriteLine(l) == [l EXCEPT !.term = IF l.term = "NONE" THEN "NONE" ELSE Linesep]
WriteLines(ls) == [i \in 1..Len(ls) |-> WriteLine(ls[i])]

\* entry.get(...) on a decoded value that is no dict raises AttributeError,
\* which is not a json.JSONDecodeError: it leaves the line loop.
ScanRaises(f) == \E i \in 1..Len(f) : f[i].body.kind = "nonobject"

IsType(l, t) == l.body.kind = "object" /\ l.body.type = t

\* Lines 186-187: the first record of type 'user' (1-based; 0 when there is
\* none, the code's -1).
FirstUserIdx(f) ==
    LET us == {i \in 1..Len(f) : IsType(f[i], "user")}
    IN  IF us = {} THEN 0 ELSE Min(us)

\* Lines 179-184: the text items of an enqueue record that qualify.
QualifyingTexts(content) ==
    {k \in 1..Len(Items(content)) :
        /\ IsTextItem(Items(content)[k])
        /\ Items(content)[k].text # <<>>
        /\ ~StartsWithIdeTag(Items(content)[k].text)}

\* Lines 176-184: original_message, captured once from the first enqueue
\* record that has a qualifying text item.
OriginalMessage(f) ==
    LET qs == {i \in 1..Len(f) :
                 /\ IsType(f[i], "queue-operation")
                 /\ f[i].body.operation = "enqueue"
                 /\ QualifyingTexts(f[i].body.content) # {}}
    IN  IF qs = {} THEN [captured |-> FALSE, text |-> <<>>]
        ELSE LET c == f[Min(qs)].body.content
             IN  [captured |-> TRUE,
                  text |-> Items(c)[Min(QualifyingTexts(c))].text]

\* Lines 200-218: the branch with a captured enqueue text.
PatchWithEnqueue(items, title, orig) ==
    LET plain == {k \in 1..Len(items) :
                    IsTextItem(items[k]) /\ ~StartsWithIdeTag(items[k].text)}
        tags  == {k \in 1..Len(items) :
                    IsTextItem(items[k]) /\ StartsWithIdeTag(items[k].text)}
        new   == TextItem(WithTitle(title, orig))
    IN  IF plain # {}
        THEN [items EXCEPT ![Min(plain)].text = WithTitle(title, orig)]
        ELSE LET pos == IF tags = {} THEN 0 ELSE Max(tags)
             IN  SubSeq(items, 1, pos) \o <<new>> \o SubSeq(items, pos + 1, Len(items))

\* Lines 220-225: the branch without one: the first text item, if any, loses
\* a leading "<line>\n\n" and gets the title in front.
PatchWithoutEnqueue(items, title) ==
    LET texts == {k \in 1..Len(items) : IsTextItem(items[k])}
    IN  IF texts = {} THEN items
        ELSE [items EXCEPT ![Min(texts)].text =
                 WithTitle(title, StripTitlePrefix(items[Min(texts)].text))]

\* Lines 195-228 on the decoded first user record: raises (KeyError on
\* entry['message'], AttributeError on str.insert) or yields the new record,
\* serialised by json.dumps.
PatchRaises(body, orig) ==
    \/ ~body.hasMessage
    \/ (orig.captured /\ body.content.shape = "str")

PatchedBody(body, title, orig) ==
    LET items == Items(body.content)
        new == IF orig.captured THEN PatchWithEnqueue(items, title, orig.text)
               ELSE PatchWithoutEnqueue(items, title)
    IN  [body EXCEPT !.fmt = "spaced",
                     !.content = IF body.content.shape = "str" THEN body.content
                                 ELSE ListContent(new)]

\* Line 228: lines[first_user_idx] = json.dumps(entry, ensure_ascii=False) + '\n'
PatchedLines(ls, idx, title, orig) ==
    [ls EXCEPT ![idx] = Line(PatchedBody(ls[idx].body, title, orig), "LF")]

\* A rewrite that does not truncate (mode 'r+'): what was appended behind
\* the lines read stays in the file.
WrittenFileNoTruncate(current, ls) ==
    WriteLines(ls) \o SubSeq(current, Len(ls) + 1, Len(current))

\* Lines 230-231: open(jsonl_file, 'w') truncates whatever the file holds
\* now and writes the lines that were read.
WrittenFile(current, ls) == WriteLines(ls)

\* The whole of rename_session on an existing file whose I/O does what io
\* says: the value returned and the file left behind.
RenameOutcome(f, title, io) ==
    LET ls   == ReadLines(f)
        idx  == FirstUserIdx(ls)
        orig == OriginalMessage(ls)
    IN  IF io = "read_error" \/ ScanRaises(ls) \/ idx = 0
        THEN [ret |-> FALSE, file |-> f]
        ELSE IF PatchRaises(ls[idx].body, orig)
        THEN [ret |-> FALSE, file |-> f]
        ELSE IF io = "write_error"
        THEN [ret |-> FALSE, file |-> <<>>]
        ELSE [ret |-> TRUE, file |-> WrittenFile(f, PatchedLines(ls, idx, title, orig))]

IoOutcomes == {"ok", "read_error", "write_error"}

(***************************************************************************)
(* parse_session_summary, lines 79-134.                                    *)
(***************************************************************************)

\* Lines 115-116 on one text item.
CleanText(t) == Strip(RemoveIdeBlocks(Strip(t)))

\* Lines 110-119: the user records from which a title text can be taken.
TitledUsers(f) ==
    {i \in 1..Len(f) :
        /\ IsType(f[i], "user")
        /\ \E k \in 1..Len(Items(f[i].body.content)) :
              /\ IsTextItem(Items(f[i].body.content)[k])
              /\ CleanText(Items(f[i].body.content)[k].text) # <<>>}

FirstUserContent(f) ==
    LET items == Items(f[Min(TitledUsers(f))].body.content)
        ks == {k \in 1..Len(items) :
                 IsTextItem(items[k]) /\ CleanText(items[k].text) # <<>>}
    IN  CleanText(items[Min(ks)].text)

Dialogue(f) == {i \in 1..Len(f) : IsType(f[i], "user") \/ IsType(f[i], "assistant")}

\* Lines 103-108: timestamps are ISO strings compared as strings; the model
\* numbers them, 0 standing for a missing or empty one.  None is 0 as well.
Stamps(f) == {f[i].body.timestamp : i \in Dialogue(f)} \ {0}

NoSummary == [none |-> TRUE, session_id |-> <<>>, title |-> <<>>, message_count |-> 0,
              created_at |-> 0, updated_at |-> 0]

ParseSessionSummary(f, session_id) ==
    IF ScanRaises(f) \/ Dialogue(f) = {} THEN NoSummary
    ELSE [none |-> FALSE,
          session_id |-> session_id,
          title |-> IF TitledUsers(f) = {} THEN DefaultTitle(session_id)
                    ELSE TitleFromText(FirstUserContent(f)),
          message_count |-> Cardinality(Dialogue(f)),
          created_at |-> IF Stamps(f) = {} THEN 0 ELSE Min(Stamps(f)),
          updated_at |-> IF Stamps(f) = {} THEN 0 ELSE Max(Stamps(f))]

(***************************************************************************)
(* The tree under the base path: <base>/<project>/<session_id>.jsonl and   *)
(* <base>/.bak/<name>.  Names are sequences of characters.  A path holds a *)
(* file or nothing.                                                        *)
(***************************************************************************)
P1 == <<"p">>
P2 == <<"p", "_", "q">>
PMissing == <<"x">>
S1 == <<"s">>
S2 == <<"q", "_", "s">>
SAgent == <<"agent-", "s">>

\* None, and the empty string, which "if project_name:" takes for None.
NoProject == <<>>

Projects == {P1, P2}
Slot(project, session_id) == [project_name |-> project, session_id |-> session_id]
Slots == {Slot(P1, S1), Slot(P1, S2), Slot(P1, SAgent), Slot(P2, S1)}

\* The order in which iterdir() and glob("*.jsonl") hand out the entries:
\* the file system's, fixed here.
GlobOrder == <<Slot(P1, S1), Slot(P1, S2), Slot(P1, SAgent), Slot(P2, S1)>>
ProjectOrder == <<P1, P2>>

Absent == [exists |-> FALSE, lines |-> <<>>]
FileOf(ls) == [exists |-> TRUE, lines |-> ls]

\* Line 148: f"{project_name}_{session_id}.jsonl"
BackupName(slot) == slot.project_name \o <<"_">> \o slot.session_id \o <<".jsonl">>
BackupNames == {BackupName(sl) : sl \in Slots}

\* jsonl_file.name.startswith("agent-")
IsAgentFile(slot) == Len(slot.session_id) > 0 /\ slot.session_id[1] = "agent-"

\* st_size, here the number of lines: 0 exactly for a file of no bytes.
FileSize(f) == Len(f.lines)

RECURSIVE Filter(_, _)
Filter(seq, keep) ==
    IF seq = <<>> THEN <<>>
    ELSE IF Head(seq) \in keep THEN <<Head(seq)>> \o Filter(Tail(seq), keep)
    ELSE Filter(Tail(seq), keep)

Range(seq) == {seq[i] : i \in 1..Len(seq)}

(***************************************************************************)
(* check_session_status, lines 239-275.                                    *)
(***************************************************************************)
InvalidKeyPhrase == "Invalid API key"

\* 'Invalid API key' in summary
HasInvalidKeyPhrase(s) == \E i \in 1..Len(s) : s[i] = InvalidKeyPhrase

\* The lines the loop gets through: it stops at the first decoded value that
\* is no dict (AttributeError, caught by the outer "except Exception: pass").
ScannedLines(ls) ==
    LET bad == {i \in 1..Len(ls) : ls[i].body.kind = "nonobject"}
    IN  IF bad = {} THEN 1..Len(ls) ELSE 1..(Min(bad) - 1)

CheckSessionStatus(f) ==
    LET seen == IF f.exists /\ FileSize(f) # 0 THEN ScannedLines(f.lines) ELSE {}
        msgs == \E i \in seen : IsType(f.lines[i], "user") \/ IsType(f.lines[i], "assistant")
    IN  [is_empty |-> ~msgs,
         has_invalid_api_key |->
             \E i \in seen : /\ IsType(f.lines[i], "summary")
                             /\ HasInvalidKeyPhrase(f.lines[i].body.summary),
         has_messages |-> msgs,
         file_size |-> IF f.exists THEN FileSize(f) ELSE 0]

(***************************************************************************)
(* find_cleanable_sessions, lines 278-315.                                 *)
(***************************************************************************)
\* Lines 287-298: the session files looked at, in directory order.
ScannedSlots(tr, ds, project) ==
    Filter(GlobOrder,
           {sl \in Slots :
              /\ IF project = NoProject THEN sl.project_name \in ds
                 ELSE sl.project_name = project /\ project \in ds
              /\ tr[sl].exists
              /\ ~IsAgentFile(sl)})

SessionInfo(tr, sl) ==
    [project_name |-> sl.project_name, session_id |-> sl.session_id,
     file_size |-> CheckSessionStatus(tr[sl]).file_size]

InInvalidBucket(f) ==
    CheckSessionStatus(f).has_invalid_api_key /\ ~CheckSessionStatus(f).has_messages

InEmptyBucket(f) ==
    /\ ~InInvalidBucket(f)
    /\ (CheckSessionStatus(f).is_empty \/ CheckSessionStatus(f).file_size = 0)

RECURSIVE InfoSeq(_, _)
InfoSeq(tr, slots) ==
    IF slots = <<>> THEN <<>>
    ELSE <<SessionInfo(tr, Head(slots))>> \o InfoSeq(tr, Tail(slots))

\* base_path.iterdir() raises FileNotFoundError when there is no base
\* directory and no project is named.
FindCleanableSessions(base, tr, ds, project) ==
    IF project = NoProject /\ ~base
    THEN [raised |-> TRUE, empty_sessions |-> <<>>, invalid_api_key_sessions |-> <<>>,
          total_count |-> 0]
    ELSE LET scanned == ScannedSlots(tr, ds, project)
             inv == Filter(scanned, {sl \in Slots : InInvalidBucket(tr[sl])})
             emp == Filter(scanned, {sl \in Slots : InEmptyBucket(tr[sl])})
         IN  [raised |-> FALSE,
              empty_sessions |-> InfoSeq(tr, emp),
              invalid_api_key_sessions |-> InfoSeq(tr, inv),
              total_count |-> Len(emp) + Len(inv)]

(***************************************************************************)
(* delete_session, lines 137-150.                                          *)
(***************************************************************************)
\* The move raises OSError for the paths in failing (a permission error, a
\* move across devices); otherwise it puts the file at the backup path,
\* replacing what is there.
DeleteSession(tr, bk, slot, failing) ==
    IF slot \notin Slots \/ ~tr[slot].exists
    THEN [raised |-> FALSE, ret |-> FALSE, tree |-> tr, bak |-> bk]
    ELSE IF slot \in failing
    THEN [raised |-> TRUE, ret |-> FALSE, tree |-> tr, bak |-> bk]
    ELSE [raised |-> FALSE, ret |-> TRUE,
          tree |-> [tr EXCEPT ![slot] = Absent],
          bak |-> [bk EXCEPT ![BackupName(slot)] = tr[slot]]]

(***************************************************************************)
(* clear_sessions, lines 318-350.                                          *)
(***************************************************************************)
InfoSlot(info) == Slot(info.project_name, info.session_id)

\* Lines 336-348, for one (session_info, reason): st carries the tree and the
\* result so far.
ClearOne(entry, failing, st) ==
    LET d == DeleteSession(st.tree, st.bak, InfoSlot(entry.info), failing)
    IN  IF d.raised
        THEN [st EXCEPT !.errors = Append(@, entry.info)]
        ELSE IF d.ret
        THEN [st EXCEPT !.tree = d.tree,
                        !.bak = d.bak,
                        !.empty_sessions =
                            IF entry.reason = "empty" THEN Append(@, entry.info) ELSE @,
                        !.invalid_api_key_sessions =
                            IF entry.reason = "empty" THEN @ ELSE Append(@, entry.info),
                        !.total_deleted = @ + 1]
        ELSE st

\* The try around the whole loop instead of inside it: the first move that
\* raises ends the batch.
RECURSIVE ClearLoopAbortOnError(_, _, _)
ClearLoopAbortOnError(todo, failing, st) ==
    IF todo = <<>> THEN st
    ELSE IF DeleteSession(st.tree, st.bak, InfoSlot(Head(todo).info), failing).raised
    THEN ClearOne(Head(todo), failing, st)
    ELSE ClearLoopAbortOnError(Tail(todo), failing, ClearOne(Head(todo), failing, st))

\* Lines 335-348: every entry in turn.
RECURSIVE ClearLoop(_, _, _)
ClearLoop(todo, failing, st) ==
    IF todo = <<>> THEN st
    ELSE ClearLoop(Tail(todo), failing, ClearOne(Head(todo), failing, st))

Tagged(infos, reason) == [i \in 1..Len(infos) |-> [info |-> infos[i], reason |-> reason]]

\* Lines 328-333.
SessionsToDelete(cleanable, clear_empty, clear_invalid) ==
    (IF clear_empty THEN Tagged(cleanable.empty_sessions, "empty") ELSE <<>>)
    \o (IF clear_invalid THEN Tagged(cleanable.invalid_api_key_sessions, "invalid_api_key")
        ELSE <<>>)

ClearSessions(base, tr, bk, ds, project, clear_empty, clear_invalid, failing) ==
    LET cleanable == FindCleanableSessions(base, tr, ds, project)
        start == [raised |-> cleanable.raised, tree |-> tr, bak |-> bk,
                  empty_sessions |-> <<>>, invalid_api_key_sessions |-> <<>>,
                  total_deleted |-> 0, errors |-> <<>>]
    IN  IF cleanable.raised THEN start
        ELSE ClearLoop(SessionsToDelete(cleanable, clear_empty, clear_invalid),
                       failing, start)

(***************************************************************************)
(* get_sessions, lines 59-76, and get_projects, lines 21-39.               *)
(***************************************************************************)
\* Lines 68-74: the summaries of the project's session files, in directory
\* order.
RECURSIVE Summaries(_, _)
Summaries(tr, slots) ==
    IF slots = <<>> THEN <<>>
    ELSE LET info == ParseSessionSummary(tr[Head(slots)].lines, Head(slots).session_id)
         IN  (IF info.none THEN <<>> ELSE <<info>>) \o Summaries(tr, Tail(slots))

\* sorted(..., reverse=True) on keys that can all be compared: descending,
\* equal keys in their original order.
RECURSIVE SortedDescending(_)
InsertDescending(x, seq) ==
    LET before == {i \in 1..Len(seq) : seq[i].updated_at <= x.updated_at}
        k == IF before = {} THEN Len(seq) + 1 ELSE Min(before)
    IN  SubSeq(seq, 1, k - 1) \o <<x>> \o SubSeq(seq, k, Len(seq))
SortedDescending(seq) ==
    IF seq = <<>> THEN <<>>
    ELSE InsertDescending(Head(seq), SortedDescending(Tail(seq)))

\* Line 76: the key is s.get("updated_at", ""): the key is always there, so
\* a session without timestamps has the key None, and comparing None with
\* anything raises TypeError as soon as two sessions are compared.
GetSessions(tr, ds, project) ==
    LET found == IF project \in ds
                 THEN Summaries(tr, ScannedSlots(tr, ds, project))
                 ELSE <<>>
    IN  IF Len(found) >= 2 /\ \E i \in 1..Len(found) : found[i].updated_at = 0
        THEN [raised |-> TRUE, sessions |-> <<>>]
        ELSE [raised |-> FALSE, sessions |-> SortedDescending(found)]

\* name and session_count of every project directory, by name; the display
\* name (format_project_name) is left out.
GetProjects(base, tr, ds) ==
    LET names == IF base THEN Filter(ProjectOrder, ds) ELSE <<>>
    IN  [i \in 1..Len(names) |->
            [name |-> names[i],
             session_count |->
                 Cardinality({sl \in Slots : sl.project_name = names[i] /\ tr[sl].exists})]]

(***************************************************************************)
(* State.                                                                  *)
(*   file .. ret      one session file and rename_session working on it    *)
(*   history, summary, appended   what was called and what it gave         *)
(*   tree .. calls    the directory tree under the base path and the tool  *)
(*                    calls made on it                                     *)
(***************************************************************************)
VARIABLES file, pc, lines, first_user_idx, original_message, new_title, ret,
          history, summary, appended,
          base, dirs, tree, bak, ncreates, deleted, request, result

MaxLines == 2
MaxCalls == 2
MaxAppends == 2

SessionId == <<"s", "1">>

IdeBlock == <<IDE_OPEN, "a", IDE_CLOSE>>

UserBodies ==
    { UserBody(1, ListContent(<<TextItem(<<"a">>)>>)),
      UserBody(1, ListContent(<<TextItem(<<"a", NL, NL, "b">>)>>)),
      UserBody(0, ListContent(<<ToolResultItem>>)),
      UserBody(1, ListContent(<<TextItem(IdeBlock), TextItem(<<"a">>)>>)),
      UserBody(1, ListContent(<<TextItem(IdeBlock \o <<"b">>)>>)),
      UserBody(1, StrContent(<<"a">>)),
      UserNoMessageBody }

OtherBodies ==
    { BlankBody, MalformedBody, NonObjectBody, AssistantBody(2),
      QueueBody("enqueue", ListContent(<<TextItem(<<"q">>)>>)),
      QueueBody("enqueue", ListContent(<<TextItem(IdeBlock)>>)) }

LinePool == UserBodies \cup OtherBodies

Titles == { <<"t">>, <<>>, <<SP, "t">> }

\* A file of the given contents: every line ends as eol says, the last one
\* possibly unterminated.
MakeFile(bodies, eol, final) ==
    [i \in 1..Len(bodies) |->
        Line(bodies[i], IF i = Len(bodies) /\ ~final THEN "NONE" ELSE eol)]

FilesOver(pool, n) ==
    UNION { {MakeFile(b, eol, final) :
                b \in [1..k -> pool], eol \in {"LF", "CRLF"}, final \in BOOLEAN}
            : k \in 1..n }

Stale == [fresh |-> FALSE, info |-> NoSummary]

fileVars == <<file, pc, lines, first_user_idx, original_message, new_title, ret,
              history, summary, appended>>
treeVars == <<base, dirs, tree, bak, ncreates, deleted, request, result>>
vars == <<fileVars, treeVars>>

NoRequest ==
    [tool |-> "", project_name |-> NoProject, session_id |-> <<>>, new_title |-> <<>>,
     clear_empty |-> FALSE, clear_invalid |-> FALSE, failing |-> {}, io |-> "ok",
     tree |-> [sl \in Slots |-> Absent], bak |-> [n \in BackupNames |-> Absent],
     base |-> FALSE, dirs |-> {}]

\* What call_tool hands back (the payload it serialises), or that it raised;
\* tree and bak are the tree as the call left it.
NoResult ==
    [raised |-> FALSE, success |-> FALSE, error |-> "", projects |-> <<>>,
     sessions |-> <<>>, empty_sessions |-> <<>>, invalid_api_key_sessions |-> <<>>,
     total |-> 0, errors |-> <<>>,
     tree |-> [sl \in Slots |-> Absent], bak |-> [n \in BackupNames |-> Absent]]

\* No tree: the specifications of one file leave these alone.
NoTree ==
    /\ base = FALSE
    /\ dirs = {}
    /\ tree = [sl \in Slots |-> Absent]
    /\ bak = [n \in BackupNames |-> Absent]
    /\ ncreates = 0
    /\ deleted = {}
    /\ request = NoRequest
    /\ result = NoResult

\* No single file: the specifications of the tree leave these alone.
NoFile ==
    /\ file = <<>>
    /\ pc = "idle"
    /\ lines = <<>>
    /\ first_user_idx = 0
    /\ original_message = [captured |-> FALSE, text |-> <<>>]
    /\ new_title = <<>>
    /\ ret = FALSE
    /\ history = <<>>
    /\ summary = [fresh |-> FALSE, info |-> NoSummary]
    /\ appended = {}

NoOriginal == [captured |-> FALSE, text |-> <<>>]

InitRename ==
    /\ file \in FilesOver(LinePool, MaxLines)
    /\ pc = "idle"
    /\ lines = <<>>
    /\ first_user_idx = 0
    /\ original_message = NoOriginal
    /\ new_title = <<>>
    /\ ret = FALSE
    /\ history = <<>>
    /\ summary = Stale
    /\ appended = {}
    /\ NoTree

\* rename_session(project, session, title) on the file, from call to return.
RenameSession(title, io) ==
    /\ Len(history) < MaxCalls
    /\ LET out == RenameOutcome(file, title, io)
       IN  /\ file' = out.file
           /\ ret' = out.ret
           /\ history' = Append(history, [title |-> title, io |-> io, ret |-> out.ret,
                                          before |-> file, after |-> out.file])
    /\ lines' = ReadLines(file)
    /\ first_user_idx' = FirstUserIdx(ReadLines(file))
    /\ original_message' = OriginalMessage(ReadLines(file))
    /\ new_title' = title
    /\ summary' = Stale
    /\ UNCHANGED <<pc, appended, treeVars>>

\* parse_session_summary(file), as get_sessions calls it for the listing.
ListSession ==
    /\ ~summary.fresh
    /\ summary' = [fresh |-> TRUE, info |-> ParseSessionSummary(file, SessionId)]
    /\ UNCHANGED <<file, pc, lines, first_user_idx, original_message, new_title,
                   ret, history, appended, treeVars>>

NextRename ==
    \/ \E title \in Titles, io \in IoOutcomes : RenameSession(title, io)
    \/ ListSession

SpecRename == InitRename /\ [][NextRename]_vars

(***************************************************************************)
(* rename_session beside the assistant process, which appends records to   *)
(* the same file with no lock: the read (lines 166-190) and the rewrite    *)
(* (lines 192-233) are two steps, and an append may fall between them.     *)
(***************************************************************************)
RacePool ==
    { UserBody(1, ListContent(<<TextItem(<<"a">>)>>)),
      UserBody(0, ListContent(<<ToolResultItem>>)),
      AssistantBody(2),
      BlankBody,
      QueueBody("enqueue", ListContent(<<TextItem(<<"q">>)>>)) }

\* Files as the assistant leaves them: every line terminated.
RaceFiles ==
    UNION { {MakeFile(b, eol, TRUE) : b \in [1..k -> RacePool], eol \in {"LF", "CRLF"}}
            : k \in 0..MaxLines }

\* Timestamps of appended records: later than any in the file, all different.
AppendStamp(n) == 2 + n

InitRace ==
    /\ file \in RaceFiles
    /\ pc = "idle"
    /\ lines = <<>>
    /\ first_user_idx = 0
    /\ original_message = NoOriginal
    /\ new_title = <<>>
    /\ ret = FALSE
    /\ history = <<>>
    /\ summary = Stale
    /\ appended = {}
    /\ NoTree

\* Lines 166-193: the file is read and scanned once.
RenameRead(title, io) ==
    /\ pc = "idle"
    /\ new_title' = title
    /\ lines' = IF io = "ok" THEN ReadLines(file) ELSE <<>>
    /\ first_user_idx' = FirstUserIdx(lines')
    /\ original_message' = OriginalMessage(lines')
    /\ IF io = "read_error" \/ ScanRaises(lines') \/ first_user_idx' = 0
       THEN pc' = "done" /\ ret' = FALSE
       ELSE pc' = "read" /\ ret' = ret
    /\ UNCHANGED <<file, history, summary, appended, treeVars>>

\* Lines 195-233: the first user record is patched and the file written back.
RenameWrite(io) ==
    /\ pc = "read"
    /\ pc' = "done"
    /\ IF PatchRaises(lines[first_user_idx].body, original_message)
       THEN ret' = FALSE /\ file' = file
       ELSE IF io = "write_error"
       THEN ret' = FALSE /\ file' = <<>>
       ELSE /\ ret' = TRUE
            /\ file' = WrittenFile(file, PatchedLines(lines, first_user_idx,
                                                      new_title, original_message))
    /\ UNCHANGED <<lines, first_user_idx, original_message, new_title, history,
                   summary, appended, treeVars>>

\* The assistant process appends one record; appended remembers at which
\* point of the rename that was.
ExternalAppend(type) ==
    /\ Cardinality(appended) < MaxAppends
    /\ LET stamp == AppendStamp(Cardinality(appended) + 1)
           body == IF type = "user"
                   THEN UserBody(stamp, ListContent(<<TextItem(<<"b">>)>>))
                   ELSE AssistantBody(stamp)
       IN  /\ file' = Append(file, Line(body, "LF"))
           /\ appended' = appended \cup {[stamp |-> stamp, at |-> pc]}
    /\ UNCHANGED <<pc, lines, first_user_idx, original_message, new_title, ret,
                   history, summary, treeVars>>

NextRace ==
    \/ \E io \in {"ok", "read_error"} : RenameRead(<<"t">>, io)
    \/ \E io \in {"ok", "write_error"} : RenameWrite(io)
    \/ \E type \in {"user", "assistant"} : ExternalAppend(type)

SpecRace == InitRace /\ [][NextRace]_vars

\* The appended record is in the file.
Present(stamp) == \E i \in 1..Len(file) : file[i].body.timestamp = stamp

\* C9: once rename_session has returned true, a record appended between its
\* read and its write is not in the file, and one appended before the read
\* or after the write is.
C9_AppendInWindowLost ==
    (pc = "done" /\ ret)
    => \A a \in appended : (a.at = "read") <=> ~Present(a.stamp)

C9_Witness ==
    /\ pc = "done" /\ ret
    /\ \E a, b \in appended : a.at = "read" /\ b.at # "read"

(***************************************************************************)
(* Claims about rename_session on one file (SpecRename).                   *)
(***************************************************************************)
Calls == {history[i] : i \in 1..Len(history)}

\* The first text item of the first user record of a file, if there is one.
FirstUserTexts(f) ==
    IF FirstUserIdx(f) = 0 THEN {}
    ELSE LET items == Items(f[FirstUserIdx(f)].body.content)
             ks == {k \in 1..Len(items) : IsTextItem(items[k])}
         IN  IF ks = {} THEN {} ELSE {items[Min(ks)].text}

\* C1: a rename that returns true leaves the number of lines as it was and
\* every line but the one of the first user record identical to the line at
\* the same position before the call.
C1_OtherLinesIdentical ==
    \A h \in Calls :
        h.ret => /\ Len(h.after) = Len(h.before)
                 /\ \A i \in 1..Len(h.before) :
                       i # FirstUserIdx(h.before) => h.after[i] = h.before[i]

\* C3: with no qualifying enqueue record and a first user record whose first
\* text item is B, renaming to T once and renaming to T twice both leave that
\* text item equal to T, a blank line, B.
C3_RenameTwiceSameTitle ==
    (/\ Len(history) = 2
     /\ history[1].ret /\ history[2].ret
     /\ history[1].title = history[2].title
     /\ ~OriginalMessage(history[1].before).captured
     /\ FirstUserTexts(history[1].before) # {})
    => \A b \in FirstUserTexts(history[1].before) :
          /\ FirstUserTexts(history[1].after) = {WithTitle(history[1].title, b)}
          /\ FirstUserTexts(history[2].after) = {WithTitle(history[1].title, b)}

\* C8: with no user record in the file, or with no enqueue text captured and
\* no text item in the first user record, a rename whose I/O works returns
\* false and leaves the file as it was.
C8_StructuralErrorIsNoOp ==
    \A h \in Calls :
        (/\ h.io = "ok"
         /\ \/ FirstUserIdx(h.before) = 0
            \/ (~OriginalMessage(h.before).captured /\ FirstUserTexts(h.before) = {}))
        => (h.after = h.before /\ ~h.ret)

\* A title the listing can show in full: not empty, at most 100 characters,
\* no line break, no IDE tag.
ShowableTitle(t) ==
    /\ t # <<>>
    /\ Len(t) <= TitleCap
    /\ \A i \in 1..Len(t) : t[i] \notin {NL, IDE_OPEN, IDE_CLOSE}

\* C10: after a rename to a showable title T that returned true, the summary
\* of the file has title T.
C10_RenameShowsInListing ==
    (/\ summary.fresh
     /\ history # <<>>
     /\ history[Len(history)].ret
     /\ ShowableTitle(history[Len(history)].title))
    => (~summary.info.none /\ summary.info.title = history[Len(history)].title)

(***************************************************************************)
(* The tools on the tree: call_tool, lines 460-498, one action per branch, *)
(* and the assistant process creating session files.                       *)
(***************************************************************************)
MaxCreates == 2

InvalidKeySummary == SummaryBody(<<InvalidKeyPhrase, SP, "detected">>)
PlainUser(ts) == UserBody(ts, ListContent(<<TextItem(<<"a">>)>>))

\* Contents of session files: no bytes; the invalid-key summary alone; a
\* user record with and without a timestamp; a JSON value that is no object
\* followed by a user record; the invalid-key summary followed by a user
\* record.
TreePool ==
    { <<>>,
      MakeFile(<<InvalidKeySummary>>, "LF", TRUE),
      MakeFile(<<PlainUser(1)>>, "LF", TRUE),
      MakeFile(<<PlainUser(0)>>, "LF", TRUE),
      MakeFile(<<NonObjectBody, PlainUser(2)>>, "LF", TRUE),
      MakeFile(<<InvalidKeySummary, PlainUser(2)>>, "LF", TRUE) }

ClearPool ==
    { <<>>,
      MakeFile(<<InvalidKeySummary>>, "LF", TRUE),
      MakeFile(<<MalformedBody>>, "LF", TRUE),
      MakeFile(<<PlainUser(1)>>, "LF", TRUE) }

InitTree ==
    /\ base \in BOOLEAN
    /\ dirs = {}
    /\ tree = [sl \in Slots |-> Absent]
    /\ bak = [n \in BackupNames |-> Absent]
    /\ ncreates = 0
    /\ deleted = {}
    /\ request = NoRequest
    /\ result = NoResult
    /\ NoFile

Request(tool) ==
    [NoRequest EXCEPT !.tool = tool, !.tree = tree, !.bak = bak, !.base = base,
                      !.dirs = dirs]

Result(tr, bk) == [NoResult EXCEPT !.tree = tr, !.bak = bk]

\* The assistant process starts a session: the file appears, with its
\* project directory and the base directory if they were missing.  A tool
\* call is one step, so a file created while a call runs is created before
\* or after it.
ExternalCreate(slot, ls) ==
    /\ request.tool = ""
    /\ ncreates < MaxCreates
    /\ ~tree[slot].exists
    /\ ncreates' = ncreates + 1
    /\ base' = TRUE
    /\ dirs' = dirs \cup {slot.project_name}
    /\ tree' = [tree EXCEPT ![slot] = FileOf(ls)]
    /\ UNCHANGED <<bak, deleted, request, result, fileVars>>

\* Lines 465-466.
CallListProjects ==
    /\ request.tool = ""
    /\ request' = Request("list_projects")
    /\ result' = [Result(tree, bak) EXCEPT !.projects = GetProjects(base, tree, dirs)]
    /\ UNCHANGED <<base, dirs, tree, bak, ncreates, deleted, fileVars>>

\* Lines 468-470.
CallListSessions(project) ==
    /\ request.tool = ""
    /\ request' = [Request("list_sessions") EXCEPT !.project_name = project]
    /\ \E got \in {GetSessions(tree, dirs, project)} :
           result' = [Result(tree, bak) EXCEPT
                         !.raised = got.raised,
                         !.error = IF got.raised THEN "TypeError" ELSE "",
                         !.sessions = got.sessions]
    /\ UNCHANGED <<base, dirs, tree, bak, ncreates, deleted, fileVars>>

\* Lines 472-477.
CallRenameSession(slot, title, io) ==
    /\ request.tool = ""
    /\ request' = [Request("rename_session") EXCEPT
                      !.project_name = slot.project_name,
                      !.session_id = slot.session_id,
                      !.new_title = title, !.io = io]
    /\ \E out \in {IF tree[slot].exists
                    THEN RenameOutcome(tree[slot].lines, title, io)
                    ELSE [ret |-> FALSE, file |-> <<>>]} :
           /\ tree' = IF tree[slot].exists
                      THEN [tree EXCEPT ![slot] = FileOf(out.file)]
                      ELSE tree
           /\ result' = [Result(tree', bak) EXCEPT !.success = out.ret]
    /\ UNCHANGED <<base, dirs, bak, ncreates, deleted, fileVars>>

\* Lines 479-483.
CallDeleteSession(slot, failing) ==
    /\ request.tool = ""
    /\ request' = [Request("delete_session") EXCEPT
                      !.project_name = slot.project_name,
                      !.session_id = slot.session_id,
                      !.failing = failing]
    /\ \E d \in {DeleteSession(tree, bak, slot, failing)} :
           /\ tree' = d.tree
           /\ bak' = d.bak
           /\ deleted' = IF d.ret THEN deleted \cup {[slot |-> slot, file |-> tree[slot]]}
                         ELSE deleted
           /\ result' = [Result(d.tree, d.bak) EXCEPT
                            !.raised = d.raised,
                            !.error = IF d.raised THEN "OSError" ELSE "",
                            !.success = d.ret]
    /\ UNCHANGED <<base, dirs, ncreates, fileVars>>

\* Lines 485-487.
CallPreviewCleanup(project) ==
    /\ request.tool = ""
    /\ request' = [Request("preview_cleanup") EXCEPT !.project_name = project]
    /\ \E c \in {FindCleanableSessions(base, tree, dirs, project)} :
           result' = [Result(tree, bak) EXCEPT
                         !.raised = c.raised,
                         !.error = IF c.raised THEN "FileNotFoundError" ELSE "",
                         !.empty_sessions = c.empty_sessions,
                         !.invalid_api_key_sessions = c.invalid_api_key_sessions,
                         !.total = c.total_count]
    /\ UNCHANGED <<base, dirs, tree, bak, ncreates, deleted, fileVars>>

\* Lines 489-493.
CallClearSessions(project, clear_empty, clear_invalid, failing) ==
    /\ request.tool = ""
    /\ request' = [Request("clear_sessions") EXCEPT
                      !.project_name = project,
                      !.clear_empty = clear_empty,
                      !.clear_invalid = clear_invalid,
                      !.failing = failing]
    /\ \E c \in {ClearSessions(base, tree, bak, dirs, project, clear_empty,
                                clear_invalid, failing)} :
           /\ tree' = c.tree
           /\ bak' = c.bak
           /\ deleted' = deleted \cup
                  {[slot |-> InfoSlot(info), file |-> tree[InfoSlot(info)]] :
                      info \in Range(c.empty_sessions) \cup Range(c.invalid_api_key_sessions)}
           /\ result' = [Result(c.tree, c.bak) EXCEPT
                            !.raised = c.raised,
                            !.error = IF c.raised THEN "FileNotFoundError" ELSE "",
                            !.empty_sessions = c.empty_sessions,
                            !.invalid_api_key_sessions = c.invalid_api_key_sessions,
                            !.total = c.total_deleted,
                            !.errors = c.errors]
    /\ UNCHANGED <<base, dirs, ncreates, fileVars>>

\* Lines 495-496.
CallUnknownTool ==
    /\ request.tool = ""
    /\ request' = Request("unknown")
    /\ result' = [Result(tree, bak) EXCEPT !.error = "Unknown tool"]
    /\ UNCHANGED <<base, dirs, tree, bak, ncreates, deleted, fileVars>>

\* Line 498: the result is handed to the client; the server waits for the
\* next call.
Respond ==
    /\ request.tool # ""
    /\ request' = NoRequest
    /\ result' = NoResult
    /\ UNCHANGED <<base, dirs, tree, bak, ncreates, deleted, fileVars>>

ProjectArgs == Projects \cup {PMissing, NoProject}
NonAgentSlots == {sl \in Slots : ~IsAgentFile(sl)}
FailingSets == {{}} \cup {{sl} : sl \in NonAgentSlots}

NextTools ==
    \/ \E sl \in Slots, ls \in TreePool : ExternalCreate(sl, ls)
    \/ CallListProjects
    \/ \E project \in ProjectArgs : CallListSessions(project)
    \/ \E sl \in Slots, io \in IoOutcomes : CallRenameSession(sl, <<"t">>, io)
    \/ \E sl \in Slots, failing \in FailingSets : CallDeleteSession(sl, failing)
    \/ \E project \in ProjectArgs : CallPreviewCleanup(project)
    \/ \E project \in ProjectArgs, ce \in BOOLEAN, ci \in BOOLEAN, failing \in FailingSets :
          CallClearSessions(project, ce, ci, failing)
    \/ CallUnknownTool
    \/ Respond

SpecTools == InitTree /\ [][NextTools]_vars

\* clear_sessions alone on a tree the assistant fills.
NextClear ==
    \/ \E sl \in Slots, ls \in ClearPool : ExternalCreate(sl, ls)
    \/ \E project \in ProjectArgs, ce \in BOOLEAN, ci \in BOOLEAN,
          failing \in SUBSET NonAgentSlots :
          CallClearSessions(project, ce, ci, failing)
    \/ Respond

SpecClear == InitTree /\ [][NextClear]_vars

(***************************************************************************)
(* Claims about the tools on the tree.                                     *)
(***************************************************************************)
InSeq(x, seq) == \E i \in 1..Len(seq) : seq[i] = x

\* C2: every file a soft delete has moved is still under .bak, and no two
\* session files that were moved share a backup name.
C2_SoftDeleteKeepsEverything ==
    /\ \A d \in deleted : \E n \in BackupNames : bak[n] = d.file
    /\ \A d1, d2 \in deleted :
          d1.slot # d2.slot => BackupName(d1.slot) # BackupName(d2.slot)

HasDialogue(ls) ==
    \E i \in 1..Len(ls) : IsType(ls[i], "user") \/ IsType(ls[i], "assistant")

HasInvalidKeySummary(ls) ==
    \E i \in 1..Len(ls) :
        IsType(ls[i], "summary") /\ HasInvalidKeyPhrase(ls[i].body.summary)

\* The non-agent session files a cleanup call for the request's project
\* looks at.
InScope(sl) ==
    /\ request.tree[sl].exists
    /\ ~IsAgentFile(sl)
    /\ (request.project_name = NoProject \/ request.project_name = sl.project_name)

Bucketed(sl, bucket) == \E i \in 1..Len(bucket) : InfoSlot(bucket[i]) = sl

\* C4: a session file is in the invalid bucket iff it has an invalid-key
\* summary and no user or assistant record, in the empty bucket iff it is
\* not in the invalid one and has no user or assistant record or no bytes;
\* and clear_sessions never moves a file that has a user or assistant record.
C4_BucketsByContent ==
    /\ (request.tool = "preview_cleanup" /\ ~result.raised)
       => \A sl \in Slots :
             InScope(sl) =>
                LET ls == request.tree[sl].lines
                    invalid == HasInvalidKeySummary(ls) /\ ~HasDialogue(ls)
                IN  /\ Bucketed(sl, result.invalid_api_key_sessions) <=> invalid
                    /\ Bucketed(sl, result.empty_sessions)
                          <=> (~invalid /\ (~HasDialogue(ls) \/ Len(ls) = 0))
    /\ (request.tool = "clear_sessions")
       => \A sl \in Slots :
             (request.tree[sl].exists /\ HasDialogue(request.tree[sl].lines))
             => result.tree[sl] = request.tree[sl]

\* C5: in a clear_sessions call every selected candidate whose move raises is
\* reported in errors and stays, every other selected candidate is moved,
\* reported in the bucket of its reason and counted in total_deleted, and a
\* candidate of a bucket whose flag is false stays.
C5_ClearIsolatesFailures ==
    (request.tool = "clear_sessions" /\ ~result.raised)
    => LET cleanable == FindCleanableSessions(request.base, request.tree,
                                              request.dirs, request.project_name)
           E == Range(cleanable.empty_sessions)
           I == Range(cleanable.invalid_api_key_sessions)
           selE == IF request.clear_empty THEN E ELSE {}
           selI == IF request.clear_invalid THEN I ELSE {}
           stays(info) == result.tree[InfoSlot(info)] = request.tree[InfoSlot(info)]
           reported(info) == \/ InSeq(info, result.empty_sessions)
                             \/ InSeq(info, result.invalid_api_key_sessions)
       IN  /\ \A info \in selE \cup selI :
                 IF InfoSlot(info) \in request.failing
                 THEN InSeq(info, result.errors) /\ stays(info) /\ ~reported(info)
                 ELSE /\ ~result.tree[InfoSlot(info)].exists
                      /\ ~InSeq(info, result.errors)
                      /\ InSeq(info, result.empty_sessions) <=> info \in selE
                      /\ InSeq(info, result.invalid_api_key_sessions) <=> info \in selI
           /\ result.total =
                 Cardinality({info \in selE \cup selI : InfoSlot(info) \notin request.failing})
           /\ \A info \in (E \cup I) \ (selE \cup selI) :
                 stays(info) /\ ~reported(info) /\ ~InSeq(info, result.errors)

\* A call in which one candidate's move raised and another's did not.
C5_Witness ==
    /\ request.tool = "clear_sessions"
    /\ ~result.raised
    /\ result.errors # <<>>
    /\ result.total >= 1

\* C6: no tool call raises, and a rename or a delete that meets an I/O
\* error answers success = false.
C6_NoToolCallRaises ==
    /\ ~result.raised
    /\ (request.tool = "rename_session" /\ request.io # "ok") => ~result.success
    /\ (/\ request.tool = "delete_session"
        /\ Slot(request.project_name, request.session_id) \in request.failing)
       => ~result.success

\* C7: list_sessions succeeds and returns exactly the project's non-agent
\* session files that have a user or assistant record, by updated_at
\* descending, a missing updated_at counting as the smallest.
C7_ListingSortedAndComplete ==
    (request.tool = "list_sessions")
    => /\ ~result.raised
       /\ {result.sessions[i].session_id : i \in 1..Len(result.sessions)}
             = {sl.session_id : sl \in {x \in Slots :
                    /\ x.project_name = request.project_name
                    /\ request.tree[x].exists
                    /\ ~IsAgentFile(x)
                    /\ HasDialogue(request.tree[x].lines)}}
       /\ \A i, j \in 1..Len(result.sessions) :
             i < j => result.sessions[i].updated_at >= result.sessions[j].updated_at

====
